---------------------------- MODULE Spec2Model ----------------------------
(***************************************************************************)
(* Task registry and execution manager of src/api/task_manager_v2.py.      *)
(*                                                                         *)
(* The durable store is the directory of <task_id>.json files, the cache   *)
(* is the diskcache instance, task_lock is the module's threading.Lock.    *)
(* Every run_etl_task call and the worker thread it starts is one "job".   *)
(* Lock sections are split where a lock-free reader can see a difference:  *)
(* after the file write and before cache.set.  A step function's return or *)
(* raise is taken together with the worker's lock section that records it. *)
(*                                                                         *)
(* Time is counted in hours.  Timestamps are stored formatted              *)
(* (isoformat) and parsed back (fromisoformat) where the code parses them. *)
(***************************************************************************)
EXTENDS Integers, Sequences, FiniteSets, TLC

--------------------------------------------------------------------------
(* Bounds of the model *)

\* number of run_etl_task calls (each with its worker thread)
NumJobs == 2
\* number of distinct values uuid4 can draw
NumIds == 2
\* the clock stops advancing after this many ticks
MaxTicks == 2

--------------------------------------------------------------------------
(* Configuration (task_manager_v2.py:31-32) *)

\* retention window and cache expiry, in hours
TASK_TTL_HOURS == 24
\* concurrency ceiling; the module sets 25, the model runs it scaled down to 1
\* so that a bounded number of jobs reaches it
MAX_CONCURRENT_TASKS == 1

\* the jobs that run at once: one more than the ceiling admits
MaxInFlight == MAX_CONCURRENT_TASKS + 1

\* one clock tick: a whole retention window, so that a record is seen exactly
\* at the cutoff (one tick old) and beyond it (two ticks old)
TickHours == TASK_TTL_HOURS

Jobs == 1..NumJobs
TaskIds == 1..NumIds

\* Python None in a string-valued field / in a timestamp field
None == "None"
NoTime == <<>>
\* the thread-local task_data when unbound or None
NoData == [status |-> None]

\* class TaskStatus
PENDING == "pending"
RUNNING == "running"
COMPLETED == "completed"
FAILED == "failed"
CANCELLED == "cancelled"

\* keys of etl_map (one registered step stands for the table) and the
\* step names a caller may pass
etl_map == {"extract"}
StepNames == {"extract", "bogus"}
\* params a caller may pass (None is run_etl_task's default)
ParamInputs == {None, "p1"}

\* datetime.isoformat() / datetime.fromisoformat(): an hour count is written
\* as <<day, hour of day>> and read back
isoformat(t) == <<t \div 24, t % 24>>
fromisoformat(s) == s[1] * 24 + s[2]

VARIABLES
    store,      \* task_id -> record: the <task_id>.json files on disk
    cache,      \* task_id -> [data, expire_time]: the diskcache entries
    task_lock,  \* 0 when free, else the holder: a job or StopThread
    now,        \* the wall clock, in hours
    job,        \* per job: position in run_etl_task / etl_worker_thread and locals
    stop,       \* the caller of stop_task: position, argument, task_data and
                \* the value the call returns
    last_stop   \* history: the task of the last stop_task call that returned
                \* having found a record, and its return value, while no other
                \* operation has written the task's file since

vars == <<store, cache, task_lock, now, job, stop, last_stop>>

\* the holder of task_lock inside stop_task
StopThread == NumJobs + 1

--------------------------------------------------------------------------
(* Store and cache primitives *)

\* load_task_from_disk: the record, or NoData when the file does not exist
load_task_from_disk(task_id) ==
    IF task_id \in DOMAIN store THEN store[task_id] ELSE NoData

\* save_task_to_disk: the store after writing the file
save_task_to_disk(task_id, task_data) ==
    [x \in DOMAIN store \cup {task_id} |->
        IF x = task_id THEN task_data ELSE store[x]]

\* cache.set(key, task_data, expire=TASK_TTL_HOURS * 3600): the cache after it
cache_set(task_id, task_data) ==
    [x \in DOMAIN cache \cup {task_id} |->
        IF x = task_id
        THEN [data |-> task_data, expire_time |-> now + TASK_TTL_HOURS]
        ELSE cache[x]]

\* cache.get(key): the entry's data unless absent or expired
cache_get(task_id) ==
    IF task_id \in DOMAIN cache /\ cache[task_id].expire_time > now
    THEN cache[task_id].data
    ELSE NoData

\* the read path of get_task_status / get_task_output: cache first, then disk
read_task(task_id) ==
    IF cache_get(task_id) # NoData THEN cache_get(task_id)
    ELSE load_task_from_disk(task_id)

\* the cache after get_task_status or get_task_output has read task_id
\* (lines 241-243, 271-273): neither calls cache.set, delete or expire
cache_after_read(task_id) == cache

\* get_task_output, lines 270-294
get_task_output(task_id) ==
    LET task_data == read_task(task_id) IN
    IF task_data = NoData THEN [output |-> "Task not found"]
    ELSE IF task_data.status = RUNNING THEN [output |-> "Task still running"]
    ELSE IF task_data.status = COMPLETED THEN [output |-> task_data.result]
    ELSE IF task_data.status = FAILED
         THEN [output |-> "Task failed: ", error |-> task_data.error]
    ELSE [output |-> "Task status: ", status |-> task_data.status]

\* mutant: the status view returning the error of any record
get_task_status_AnyError(task_id) ==
    LET task_data == read_task(task_id) IN
    IF task_data = NoData THEN [status |-> "not_found", output |-> None]
    ELSE [status |-> task_data.status,
          output |-> IF task_data.status = COMPLETED THEN task_data.result ELSE None,
          error |-> task_data.error,
          step_name |-> task_data.step_name,
          created_at |-> task_data.created_at,
          started_at |-> task_data.started_at,
          completed_at |-> task_data.completed_at]

\* get_task_status, lines 241-264: the view of the record read
get_task_status(task_id) ==
    LET task_data == read_task(task_id) IN
    IF task_data = NoData THEN [status |-> "not_found", output |-> None]
    ELSE [status |-> task_data.status,
          output |-> IF task_data.status = COMPLETED THEN task_data.result ELSE None,
          error |-> IF task_data.status = FAILED THEN task_data.error ELSE None,
          step_name |-> task_data.step_name,
          created_at |-> task_data.created_at,
          started_at |-> task_data.started_at,
          completed_at |-> task_data.completed_at]

\* mutant: the record created as already running
create_task_record_Running(task_id, step_name, params) ==
    [task_id |-> task_id,
     step_name |-> step_name,
     status |-> RUNNING,
     created_at |-> isoformat(now),
     started_at |-> isoformat(now),
     completed_at |-> NoTime,
     params |-> params,
     result |-> None,
     error |-> None,
     pid |-> None,
     thread_id |-> 0]

\* create_task_record
create_task_record(task_id, step_name, params) ==
    [task_id |-> task_id,
     step_name |-> step_name,
     status |-> PENDING,
     created_at |-> isoformat(now),
     started_at |-> NoTime,
     completed_at |-> NoTime,
     params |-> params,
     result |-> None,
     error |-> None,
     pid |-> None,
     thread_id |-> 0]

\* get_running_tasks_count: files whose record has status RUNNING
get_running_tasks_count ==
    Cardinality({x \in DOMAIN store : store[x].status = RUNNING})

\* st_mtime of a task file, in hours: the time of the last write of the
\* file; every write stamps the current time in one of the three timestamps
st_mtime(task_data) ==
    LET stamps == {fromisoformat(t) :
                      t \in {task_data.created_at, task_data.started_at,
                              task_data.completed_at} \ {NoTime}}
    IN CHOOSE m \in stamps : \A n \in stamps : n <= m

\* line 373: the orders in which sorted(..., key=st_mtime, reverse=True) can
\* give the task files (files written in the same hour come in either order)
sorted_task_files ==
    {s \in [1..Cardinality(DOMAIN store) -> DOMAIN store] :
        \A i, k \in DOMAIN s :
            i < k => /\ s[i] # s[k]
                     /\ st_mtime(store[s[i]]) >= st_mtime(store[s[k]])}

\* lines 381-387: the summary of a record
task_summary(task_data) ==
    [task_id |-> task_data.task_id,
     step_name |-> task_data.step_name,
     status |-> task_data.status,
     created_at |-> task_data.created_at,
     completed_at |-> task_data.completed_at]

\* get_all_tasks(limit): the lists it can return
get_all_tasks(limit) ==
    {[i \in 1..(IF limit < Len(s) THEN limit ELSE Len(s)) |-> task_summary(store[s[i]])] :
        s \in sorted_task_files}

\* get_system_stats, lines 393-424
get_system_stats ==
    [total_tasks |-> Cardinality(DOMAIN store),
     running_tasks |-> Cardinality({x \in DOMAIN store : store[x].status = RUNNING}),
     completed_tasks |-> Cardinality({x \in DOMAIN store : store[x].status = COMPLETED}),
     failed_tasks |-> Cardinality({x \in DOMAIN store : store[x].status = FAILED}),
     max_concurrent_tasks |-> MAX_CONCURRENT_TASKS,
     task_ttl_hours |-> TASK_TTL_HOURS]

\* mutant: the status query taking task_lock as the writers do
LockingOperations_WithStatus ==
    {"run_etl_task", "etl_worker_thread", "stop_task",
     "cleanup_completed_tasks", "get_task_status"}

\* the functions with a `with task_lock:` section
LockingOperations ==
    {"run_etl_task", "etl_worker_thread", "stop_task", "cleanup_completed_tasks"}

\* the read-only functions
Queries ==
    {"get_task_status", "get_task_output", "get_all_tasks", "get_system_stats"}

\* a call of function op made in this state runs to its end without waiting
\* for another thread: it waits only at a `with task_lock:` while the lock is
\* held (the step function runs in the worker thread, outside every caller)
RunsWithoutWaiting(op) == op \in LockingOperations => task_lock = 0

--------------------------------------------------------------------------
(* Initial state: empty storage directory, empty cache, no call in flight *)

IdleJob ==
    [pc |-> "idle", task_id |-> 0, step_name |-> None, params |-> None,
     task_data |-> NoData]

IdleStop == [pc |-> "idle", task_id |-> 0, task_data |-> NoData, ret |-> None]

\* mutant: a worker that starts over on its task instead of ending
Finished_Retry(task_id) ==
    [IdleJob EXCEPT !.pc = "dispatch", !.task_id = task_id, !.step_name = "extract"]

\* a job whose worker thread has ended (its locals are gone)
Finished(task_id) == [IdleJob EXCEPT !.pc = "finished", !.task_id = task_id]

\* no stop_task call in the history
NoStop == [task_id |-> 0, ret |-> None]

Init ==
    /\ store = <<>>
    /\ cache = <<>>
    /\ task_lock = 0
    /\ now = 0
    /\ job = [j \in Jobs |-> IdleJob]
    /\ stop = IdleStop
    /\ last_stop = NoStop

\* a write to task_id's file invalidates the stop_task history on it
Touch(task_id) ==
    IF last_stop.task_id = task_id
    THEN NoStop
    ELSE last_stop

--------------------------------------------------------------------------
(* The clock *)

\* a tick falls neither inside a lock section nor inside a run_etl_task call:
\* those last far less than a tick (a step function may run across ticks)
Tick ==
    /\ task_lock = 0
    /\ \A j \in Jobs : job[j].pc \notin {"genid", "save", "save_cache"}
    /\ now + TickHours <= MaxTicks * TickHours
    /\ now' = now + TickHours
    /\ UNCHANGED <<store, cache, task_lock, job, stop, last_stop>>

--------------------------------------------------------------------------
(* run_etl_task: one call per job *)

\* the jobs in flight: run_etl_task called and not failed, worker not ended
InFlight == {i \in Jobs : job[i].pc \notin {"idle", "rejected", "finished"}}

\* the call order of the jobs is fixed: job j is called after job j-1; at most
\* MaxInFlight jobs are in flight at once
MayStart(j) ==
    /\ \A i \in Jobs : i < j => job[i].pc # "idle"
    /\ Cardinality(InFlight) < MaxInFlight

\* mutant: the ceiling test with > for >=
AtCapacity_Strict(running_tasks) == running_tasks > MAX_CONCURRENT_TASKS

\* the ceiling test of run_etl_task
AtCapacity(running_tasks) == running_tasks >= MAX_CONCURRENT_TASKS

\* lines 194-201: default params, then count under the lock and decide
SubmitCheck(j, step_name, params) ==
    /\ job[j].pc = "idle"
    /\ MayStart(j)
    /\ task_lock = 0
    /\ job' = [job EXCEPT ![j] =
                 IF AtCapacity(get_running_tasks_count)
                 THEN [@ EXCEPT !.pc = "rejected"]
                 ELSE [@ EXCEPT !.pc = "genid",
                                !.step_name = step_name,
                                !.params = IF params = None THEN "{}" ELSE params]]
    /\ UNCHANGED <<store, cache, task_lock, now, stop, last_stop>>

\* the ids uuid4 has drawn so far (every job keeps the id it drew)
Drawn == {job[i].task_id : i \in Jobs} \ {0}

\* line 207: the loop ends with a draw whose file does not exist
IdAccepted(task_id) == load_task_from_disk(task_id) = NoData

\* a value uuid4 has not drawn before; which one is immaterial, so it is the
\* least one
IsFresh(task_id) ==
    /\ task_id \notin Drawn
    /\ \A y \in TaskIds : y < task_id => y \in Drawn

\* lines 203-213: the accepted draw and the new record, outside the lock.
\* uuid4 either never repeats a value (fresh) or may draw any value
SubmitGenerateId(j, task_id, fresh) ==
    /\ job[j].pc = "genid"
    /\ fresh => IsFresh(task_id)
    /\ IdAccepted(task_id)
    /\ job' = [job EXCEPT ![j] =
                 [@ EXCEPT !.pc = "save",
                           !.task_id = task_id,
                           !.task_data = create_task_record(task_id, job[j].step_name, job[j].params)]]
    /\ UNCHANGED <<store, cache, task_lock, now, stop, last_stop>>

\* lines 216-217: take the lock and write the file
SubmitSave(j) ==
    /\ job[j].pc = "save"
    /\ task_lock = 0
    /\ task_lock' = j
    /\ store' = save_task_to_disk(job[j].task_id, job[j].task_data)
    /\ last_stop' = Touch(job[j].task_id)
    /\ job' = [job EXCEPT ![j].pc = "save_cache"]
    /\ UNCHANGED <<cache, now, stop>>

\* lines 218-235: cache.set, release, start the worker thread, return task_id
SubmitStart(j) ==
    /\ job[j].pc = "save_cache"
    /\ task_lock = j
    /\ cache' = cache_set(job[j].task_id, job[j].task_data)
    /\ task_lock' = 0
    /\ job' = [job EXCEPT ![j] = [@ EXCEPT !.pc = "dispatch", !.task_data = NoData]]
    /\ UNCHANGED <<store, now, stop, last_stop>>

\* the jobs whose run_etl_task call has returned a task_id
Returned == {j \in Jobs : job[j].pc \notin {"idle", "rejected", "genid", "save", "save_cache"}}

--------------------------------------------------------------------------
(* etl_worker_thread *)

\* mutant: the dispatch that builds the record anew instead of updating it
MarkRunning_Recreated(task_data, j) ==
    [create_task_record(task_data.task_id, task_data.step_name, task_data.params)
        EXCEPT !.status = RUNNING,
               !.started_at = isoformat(now),
               !.thread_id = j,
               !.pid = "pid"]

\* the update of lines 141-146
MarkRunning(task_data, j) ==
    [task_data EXCEPT !.status = RUNNING,
                      !.started_at = isoformat(now),
                      !.thread_id = j,
                      !.pid = "pid"]

\* mutant: the dispatch that makes up a record when it finds none
WorkerDispatch_Creates(j) ==
    /\ job[j].pc = "dispatch"
    /\ task_lock = 0
    /\ LET loaded == load_task_from_disk(job[j].task_id)
           task_data == IF loaded = NoData
                        THEN create_task_record(job[j].task_id, job[j].step_name,
                                                job[j].params)
                        ELSE loaded
       IN /\ task_lock' = j
          /\ store' = save_task_to_disk(job[j].task_id, MarkRunning(task_data, j))
          /\ last_stop' = Touch(job[j].task_id)
          /\ job' = [job EXCEPT ![j] =
                       [@ EXCEPT !.pc = "dispatch_cache",
                                 !.task_data = MarkRunning(task_data, j)]]
    /\ UNCHANGED <<cache, now, stop>>

\* lines 135-147: load under the lock; return if absent, else write RUNNING
WorkerDispatch(j) ==
    /\ job[j].pc = "dispatch"
    /\ task_lock = 0
    /\ LET task_data == load_task_from_disk(job[j].task_id) IN
         IF task_data = NoData
         THEN /\ job' = [job EXCEPT ![j] = Finished(job[j].task_id)]
              /\ UNCHANGED <<store, task_lock, last_stop>>
         ELSE /\ task_lock' = j
              /\ store' = save_task_to_disk(job[j].task_id, MarkRunning(task_data, j))
              /\ last_stop' = Touch(job[j].task_id)
              /\ job' = [job EXCEPT ![j] =
                           [@ EXCEPT !.pc = "dispatch_cache",
                                     !.task_data = MarkRunning(task_data, j)]]
    /\ UNCHANGED <<cache, now, stop>>

\* line 148: cache.set and release
WorkerDispatchCache(j) ==
    /\ job[j].pc = "dispatch_cache"
    /\ task_lock = j
    /\ cache' = cache_set(job[j].task_id, job[j].task_data)
    /\ task_lock' = 0
    /\ job' = [job EXCEPT ![j] = [@ EXCEPT !.pc = "exec", !.task_data = NoData]]
    /\ UNCHANGED <<store, now, stop, last_stop>>

\* mutant: the worker that writes its terminal state whatever it loaded
WritesTerminal_Always(task_data) == task_data = task_data

\* whether the worker writes its terminal state over the record it loaded
\* (lines 163 and 182: `if task_data:`)
WritesTerminal(task_data) == task_data # NoData

\* mutant: the completion that leaves the error field as it was
MarkCompleted_KeepsError(task_data, result) ==
    [task_data EXCEPT !.status = COMPLETED,
                      !.completed_at = isoformat(now),
                      !.result = result]

\* mutant: the completion that does not store the step function's result
MarkCompleted_NoResult(task_data, result) ==
    [task_data EXCEPT !.status = COMPLETED,
                      !.completed_at = isoformat(now),
                      !.error = None]

\* the update of lines 164-169
MarkCompleted(task_data, result) ==
    [task_data EXCEPT !.status = COMPLETED,
                      !.completed_at = isoformat(now),
                      !.result = result,
                      !.error = None]

\* mutant: the failure that does not store the error message
MarkFailed_NoError(task_data, error_msg) ==
    [task_data EXCEPT !.status = FAILED,
                      !.completed_at = isoformat(now),
                      !.result = None]

\* mutant: the failure stamped with the time of the record's creation
MarkFailed_StampsCreation(task_data, error_msg) ==
    [task_data EXCEPT !.status = FAILED,
                      !.completed_at = task_data.created_at,
                      !.result = None,
                      !.error = error_msg]

\* the update of lines 183-188
MarkFailed(task_data, error_msg) ==
    [task_data EXCEPT !.status = FAILED,
                      !.completed_at = isoformat(now),
                      !.result = None,
                      !.error = error_msg]

\* str(e) of lines 152 and 176: the step is unknown, or the step function raised
error_msg(step_name) ==
    IF step_name \in etl_map THEN "step error" ELSE "Unknown ETL step"

\* lines 161-170 and 180-189: load under the lock; write the terminal state
\* new_data over the record if there is one
WorkerTerminal(j, task_data, new_data) ==
    /\ job[j].pc = "exec"
    /\ task_lock = 0
    /\ IF WritesTerminal(task_data)
       THEN /\ task_lock' = j
            /\ store' = save_task_to_disk(job[j].task_id, new_data)
            /\ last_stop' = Touch(job[j].task_id)
            /\ job' = [job EXCEPT ![j] =
                         [@ EXCEPT !.pc = "finish_cache", !.task_data = new_data]]
       ELSE /\ job' = [job EXCEPT ![j] = Finished(job[j].task_id)]
            /\ UNCHANGED <<store, task_lock, last_stop>>
    /\ UNCHANGED <<cache, now, stop>>

\* lines 151-170: the registered step function returns its result (it may
\* take any time, or never return); the worker takes the lock to record it
WorkerCompletes(j) ==
    /\ job[j].step_name \in etl_map
    /\ WorkerTerminal(j, load_task_from_disk(job[j].task_id),
                      MarkCompleted(load_task_from_disk(job[j].task_id), "result"))

\* mutant: the failure surfacing as an exception of run_etl_task instead of
\* being recorded
WorkerFails_Propagates(j) ==
    /\ job[j].pc = "exec"
    /\ task_lock = 0
    /\ job' = [job EXCEPT ![j].pc = "rejected"]
    /\ UNCHANGED <<store, cache, task_lock, now, stop, last_stop>>

\* lines 151-158, 175-189: the step is unknown or the step function raises;
\* the worker takes the lock to record the failure
WorkerFails(j) ==
    WorkerTerminal(j, load_task_from_disk(job[j].task_id),
                   MarkFailed(load_task_from_disk(job[j].task_id),
                              error_msg(job[j].step_name)))

\* lines 171 and 190: cache.set and release; the thread ends
WorkerFinishCache(j) ==
    /\ job[j].pc = "finish_cache"
    /\ task_lock = j
    /\ cache' = cache_set(job[j].task_id, job[j].task_data)
    /\ task_lock' = 0
    /\ job' = [job EXCEPT ![j] = Finished(job[j].task_id)]
    /\ UNCHANGED <<store, now, stop, last_stop>>

--------------------------------------------------------------------------
(* stop_task *)

\* mutant: stop_task without the status test
IsCancellable_Always(task_data) == TRUE

\* mutant: stop_task testing only that the record is not cancelled yet
IsCancellable_NotCancelled(task_data) == task_data.status # CANCELLED

\* mutant: stop_task cancelling records that have completed as well
IsCancellable_Finished(task_data) == task_data.status \in {RUNNING, COMPLETED}

\* line 305: the records stop_task cancels
IsCancellable(task_data) == task_data.status = RUNNING

\* mutant: the cancellation that does not stamp completed_at
MarkCancelled_NoCompletedAt(task_data) ==
    [task_data EXCEPT !.status = CANCELLED,
                      !.error = "Task cancelled by user"]

\* the update of lines 306-310
MarkCancelled(task_data) ==
    [task_data EXCEPT !.status = CANCELLED,
                      !.completed_at = isoformat(now),
                      !.error = "Task cancelled by user"]

\* the history after a stop_task call on task_id has returned ret; it is kept
\* only in the specifications that compare successive calls (hist), and only
\* of calls that found a record
StopReturned(task_id, ret, hist) ==
    IF hist /\ ret # "not_found"
    THEN [task_id |-> task_id, ret |-> ret]
    ELSE last_stop

\* mutant: the stop_task that unlinks the file of the task it cancels
StopTask_Unlinks(task_id) ==
    /\ stop.pc = "idle"
    /\ task_lock = 0
    /\ task_lock' = StopThread
    /\ IsCancellable(load_task_from_disk(task_id))
    /\ store' = [x \in DOMAIN store \ {task_id} |-> store[x]]
    /\ stop' = [pc |-> "stop_return", task_id |-> task_id,
                task_data |-> NoData, ret |-> "cancelled"]
    /\ UNCHANGED <<cache, now, job, last_stop>>

\* lines 300-311, 315: take the lock and load; the call will return
\* not_found or not_running, or it writes CANCELLED to the file
StopTask(task_id) ==
    /\ stop.pc = "idle"
    /\ task_lock = 0
    /\ task_lock' = StopThread
    /\ LET task_data == load_task_from_disk(task_id) IN
         IF task_data = NoData
         THEN /\ stop' = [pc |-> "stop_return", task_id |-> task_id,
                          task_data |-> NoData, ret |-> "not_found"]
              /\ UNCHANGED store
         ELSE IF IsCancellable(task_data)
         THEN /\ store' = save_task_to_disk(task_id, MarkCancelled(task_data))
              /\ stop' = [pc |-> "stop_cache", task_id |-> task_id,
                          task_data |-> MarkCancelled(task_data),
                          ret |-> "cancelled"]
         ELSE /\ stop' = [pc |-> "stop_return", task_id |-> task_id,
                          task_data |-> NoData, ret |-> "not_running"]
              /\ UNCHANGED store
    /\ UNCHANGED <<cache, now, job, last_stop>>

\* mutant: the stop_task that writes the file and skips cache.set
StopTaskCache_NoSet(hist) ==
    /\ stop.pc = "stop_cache"
    /\ task_lock = StopThread
    /\ task_lock' = 0
    /\ stop' = IdleStop
    /\ last_stop' = StopReturned(stop.task_id, stop.ret, hist)
    /\ UNCHANGED <<store, cache, now, job>>

\* lines 312-314: cache.set, release, return cancelled
StopTaskCache(hist) ==
    /\ stop.pc = "stop_cache"
    /\ task_lock = StopThread
    /\ cache' = cache_set(stop.task_id, stop.task_data)
    /\ task_lock' = 0
    /\ stop' = IdleStop
    /\ last_stop' = StopReturned(stop.task_id, stop.ret, hist)
    /\ UNCHANGED <<store, now, job>>

\* lines 303 and 316: release, return not_found or not_running
StopTaskReturn(hist) ==
    /\ stop.pc = "stop_return"
    /\ task_lock = StopThread
    /\ task_lock' = 0
    /\ stop' = IdleStop
    /\ last_stop' = StopReturned(stop.task_id, stop.ret, hist)
    /\ UNCHANGED <<store, cache, now, job>>

--------------------------------------------------------------------------
(* cleanup_completed_tasks *)

\* line 335
cutoff_time == now - TASK_TTL_HOURS

\* mutant: the sweep deleting by age alone
IsPurgeable_AnyStatus(task_data) ==
    /\ fromisoformat(task_data.created_at) < cutoff_time
    /\ task_data.task_id # 0

\* mutant: the sweep comparing the age with <= for <
IsPurgeable_AtCutoff(task_data) ==
    /\ fromisoformat(task_data.created_at) <= cutoff_time
    /\ task_data.status \in {COMPLETED, FAILED, CANCELLED}
    /\ task_data.task_id # 0

\* mutant: the sweep that also times out RUNNING records past the window
IsPurgeable_TimesOut(task_data) ==
    /\ fromisoformat(task_data.created_at) < cutoff_time
    /\ task_data.status \in {RUNNING, COMPLETED, FAILED, CANCELLED}
    /\ task_data.task_id # 0

\* lines 345-352: the records the sweep deletes
IsPurgeable(task_data) ==
    /\ fromisoformat(task_data.created_at) < cutoff_time
    /\ task_data.status \in {COMPLETED, FAILED, CANCELLED}
    /\ task_data.task_id # 0

\* mutant: the sweep unlinking the files and leaving the cache entries
cache_delete_Skipped(task_ids) == cache

\* line 354: the cache after cache.delete of each of task_ids
cache_delete(task_ids) == [x \in DOMAIN cache \ task_ids |-> cache[x]]

\* the ids of cleaned_tasks
cleaned_tasks == {x \in DOMAIN store : IsPurgeable(store[x])}

\* lines 335-358: the whole sweep runs under the lock; every purgeable file
\* is unlinked and its cache entry deleted
cleanup_completed_tasks ==
    /\ task_lock = 0
    /\ store' = [x \in DOMAIN store \ cleaned_tasks |-> store[x]]
    /\ cache' = cache_delete(cleaned_tasks)
    /\ last_stop' = IF last_stop.task_id \in cleaned_tasks
                    THEN NoStop
                    ELSE last_stop
    /\ UNCHANGED <<task_lock, now, job, stop>>

--------------------------------------------------------------------------
(* Writes that fail *)

\* save_task_to_disk when open or json.dump raises (lines 110-111): the
\* exception is logged and not raised again, the call returns as after a
\* write; the store after it, when nothing of the new record was persisted
save_task_to_disk_fails(task_id, task_data) == store

\* lines 216-217 with a failing write
SubmitSaveFails(j) ==
    /\ job[j].pc = "save"
    /\ task_lock = 0
    /\ task_lock' = j
    /\ store' = save_task_to_disk_fails(job[j].task_id, job[j].task_data)
    /\ job' = [job EXCEPT ![j].pc = "save_cache"]
    /\ UNCHANGED <<cache, now, stop, last_stop>>

\* lines 135-147 with a failing write of the RUNNING record
WorkerDispatchFails(j) ==
    /\ job[j].pc = "dispatch"
    /\ task_lock = 0
    /\ LET task_data == load_task_from_disk(job[j].task_id) IN
         /\ task_data # NoData
         /\ task_lock' = j
         /\ store' = save_task_to_disk_fails(job[j].task_id, MarkRunning(task_data, j))
         /\ job' = [job EXCEPT ![j] =
                      [@ EXCEPT !.pc = "dispatch_cache",
                                !.task_data = MarkRunning(task_data, j)]]
    /\ UNCHANGED <<cache, now, stop, last_stop>>

\* lines 161-170 and 180-189 with a failing write of the terminal record
WorkerTerminalFails(j, task_data, new_data) ==
    /\ job[j].pc = "exec"
    /\ task_lock = 0
    /\ WritesTerminal(task_data)
    /\ task_lock' = j
    /\ store' = save_task_to_disk_fails(job[j].task_id, new_data)
    /\ job' = [job EXCEPT ![j] =
                 [@ EXCEPT !.pc = "finish_cache", !.task_data = new_data]]
    /\ UNCHANGED <<cache, now, stop, last_stop>>

\* the step function returns and the write of COMPLETED fails
WorkerCompletesSaveFails(j) ==
    /\ job[j].step_name \in etl_map
    /\ WorkerTerminalFails(j, load_task_from_disk(job[j].task_id),
                           MarkCompleted(load_task_from_disk(job[j].task_id), "result"))

\* the step function raises and the write of FAILED fails
WorkerFailsSaveFails(j) ==
    WorkerTerminalFails(j, load_task_from_disk(job[j].task_id),
                        MarkFailed(load_task_from_disk(job[j].task_id),
                                   error_msg(job[j].step_name)))

\* lines 300-311 with a failing write of the CANCELLED record
StopTaskSaveFails(task_id) ==
    /\ stop.pc = "idle"
    /\ task_lock = 0
    /\ task_lock' = StopThread
    /\ LET task_data == load_task_from_disk(task_id) IN
         /\ task_data # NoData
         /\ IsCancellable(task_data)
         /\ store' = save_task_to_disk_fails(task_id, MarkCancelled(task_data))
         /\ stop' = [pc |-> "stop_cache", task_id |-> task_id,
                     task_data |-> MarkCancelled(task_data),
                     ret |-> "cancelled"]
    /\ UNCHANGED <<cache, now, job, last_stop>>

\* a write of a task file fails
SaveFails ==
    \/ \E j \in Jobs : SubmitSaveFails(j)
    \/ \E j \in Jobs : WorkerDispatchFails(j)
    \/ \E j \in Jobs : WorkerCompletesSaveFails(j)
    \/ \E j \in Jobs : WorkerFailsSaveFails(j)
    \/ \E task_id \in TaskIds : StopTaskSaveFails(task_id)

--------------------------------------------------------------------------
(* The system *)

\* the calls of run_etl_task with a step name of `steps` and params of `inputs`
Submit(steps, inputs) ==
    \E j \in Jobs, step_name \in steps, params \in inputs :
        SubmitCheck(j, step_name, params)

\* the steps of run_etl_task after its check, and of the worker threads
JobStep(fresh) ==
    \/ \E j \in Jobs, task_id \in TaskIds : SubmitGenerateId(j, task_id, fresh)
    \/ \E j \in Jobs : SubmitSave(j)
    \/ \E j \in Jobs : SubmitStart(j)
    \/ \E j \in Jobs : WorkerDispatch(j)
    \/ \E j \in Jobs : WorkerDispatchCache(j)
    \/ \E j \in Jobs : WorkerCompletes(j)
    \/ \E j \in Jobs : WorkerFails(j)
    \/ \E j \in Jobs : WorkerFinishCache(j)

\* callers pass registered step names and explicit params; uuid4 never
\* repeats a value; no history of stop_task calls is kept
Next ==
    \/ Tick
    \/ Submit(etl_map, {"p1"})
    \/ JobStep(TRUE)
    \/ \E task_id \in TaskIds : StopTask(task_id)
    \/ StopTaskCache(FALSE)
    \/ StopTaskReturn(FALSE)
    \/ cleanup_completed_tasks

Spec == Init /\ [][Next]_vars

\* the same system with the last return value of stop_task kept in last_stop
NextStop ==
    \/ Tick
    \/ Submit(etl_map, {"p1"})
    \/ JobStep(TRUE)
    \/ \E task_id \in TaskIds : StopTask(task_id)
    \/ StopTaskCache(TRUE)
    \/ StopTaskReturn(TRUE)
    \/ cleanup_completed_tasks

SpecStop == Init /\ [][NextStop]_vars

\* the same system on a storage directory whose writes may fail
NextSaveFails ==
    \/ Tick
    \/ Submit(etl_map, {"p1"})
    \/ JobStep(TRUE)
    \/ \E task_id \in TaskIds : StopTask(task_id)
    \/ StopTaskCache(FALSE)
    \/ StopTaskReturn(FALSE)
    \/ cleanup_completed_tasks
    \/ SaveFails

SpecSaveFails == Init /\ [][NextSaveFails]_vars

\* the same system in which the initial write of a run_etl_task call may fail
NextSubmitFails ==
    \/ Tick
    \/ Submit(etl_map, {"p1"})
    \/ JobStep(TRUE)
    \/ \E j \in Jobs : SubmitSaveFails(j)
    \/ \E task_id \in TaskIds : StopTask(task_id)
    \/ StopTaskCache(FALSE)
    \/ StopTaskReturn(FALSE)
    \/ cleanup_completed_tasks

SpecSubmitFails == Init /\ [][NextSubmitFails]_vars

\* the same system with uuid4 free to draw a value it has drawn before
NextCollide ==
    \/ Tick
    \/ Submit(etl_map, {"p1"})
    \/ JobStep(FALSE)
    \/ \E task_id \in TaskIds : StopTask(task_id)
    \/ StopTaskCache(FALSE)
    \/ StopTaskReturn(FALSE)
    \/ cleanup_completed_tasks

SpecCollide == Init /\ [][NextCollide]_vars

\* the same system called with any step name, registered or not
NextSteps ==
    \/ Tick
    \/ Submit(StepNames, {"p1"})
    \/ JobStep(TRUE)
    \/ \E task_id \in TaskIds : StopTask(task_id)
    \/ StopTaskCache(FALSE)
    \/ StopTaskReturn(FALSE)
    \/ cleanup_completed_tasks

SpecSteps == Init /\ [][NextSteps]_vars

\* mutant: the worker that does not leave its dispatch lock section before
\* the step function runs
ThreadStep_KeepsLock(j) ==
    \/ \E task_id \in TaskIds : SubmitGenerateId(j, task_id, TRUE)
    \/ SubmitSave(j)
    \/ SubmitStart(j)
    \/ WorkerDispatch(j)
    \/ WorkerFinishCache(j)

\* the steps of job j's run_etl_task call after its check and of its worker
\* thread, but for the outcome of the step function
ThreadStep(j) ==
    \/ \E task_id \in TaskIds : SubmitGenerateId(j, task_id, TRUE)
    \/ SubmitSave(j)
    \/ SubmitStart(j)
    \/ WorkerDispatch(j)
    \/ WorkerDispatchCache(j)
    \/ WorkerFinishCache(j)

\* mutant: the stop_task whose not_found / not_running return leaves the
\* lock taken
StopTaskEnds_KeepsLock ==
    \/ StopTaskCache(FALSE)
    \/ /\ stop.pc = "stop_return"
       /\ task_lock = StopThread
       /\ stop' = IdleStop
       /\ UNCHANGED <<store, cache, task_lock, now, job, last_stop>>

\* the stop_task call in progress returns
StopTaskEnds == StopTaskCache(FALSE) \/ StopTaskReturn(FALSE)

\* the system in which every step function returns normally
NextReturns ==
    \/ Tick
    \/ Submit(etl_map, {"p1"})
    \/ \E j \in Jobs : ThreadStep(j)
    \/ \E j \in Jobs : WorkerCompletes(j)
    \/ \E task_id \in TaskIds : StopTask(task_id)
    \/ StopTaskEnds
    \/ cleanup_completed_tasks

\* fair scheduling: a thread that can run, or that time and again finds
\* task_lock free, takes its next step; its step function returns; a
\* stop_task call holding the lock returns
SpecReturns ==
    /\ Init /\ [][NextReturns]_vars
    /\ \A j \in Jobs : SF_vars(ThreadStep(j) \/ WorkerCompletes(j))
    /\ WF_vars(StopTaskEnds)

\* the system in which every step function raises
NextRaises ==
    \/ Tick
    \/ Submit(etl_map, {"p1"})
    \/ \E j \in Jobs : ThreadStep(j)
    \/ \E j \in Jobs : WorkerFails(j)
    \/ \E task_id \in TaskIds : StopTask(task_id)
    \/ StopTaskEnds
    \/ cleanup_completed_tasks

\* fair scheduling as in SpecReturns; the step function raises
SpecRaises ==
    /\ Init /\ [][NextRaises]_vars
    /\ \A j \in Jobs : SF_vars(ThreadStep(j) \/ WorkerFails(j))
    /\ WF_vars(StopTaskEnds)

\* the system in which every execution fails: the step is unknown to the
\* worker (line 152) or the step function raises (line 158)
NextFails ==
    \/ Tick
    \/ Submit(StepNames, {"p1"})
    \/ \E j \in Jobs : ThreadStep(j)
    \/ \E j \in Jobs : WorkerFails(j)
    \/ \E task_id \in TaskIds : StopTask(task_id)
    \/ StopTaskEnds
    \/ cleanup_completed_tasks

SpecFails == Init /\ [][NextFails]_vars

\* fair scheduling of everything but the step functions, which may run for
\* ever: a thread takes its next step unless it is inside its step function
SpecStall ==
    /\ Init /\ [][NextReturns]_vars
    /\ \A j \in Jobs : SF_vars(ThreadStep(j))
    /\ WF_vars(StopTaskEnds)

\* no run_etl_task call is between its first and its last statement
NoCallInProgress ==
    \A j \in Jobs : job[j].pc \notin {"genid", "save", "save_cache"}

\* the system in which run_etl_task calls do not overlap in time: a call is
\* made only after the call before it has returned or failed
NextSerial ==
    \/ Tick
    \/ NoCallInProgress /\ Submit(etl_map, {"p1"})
    \/ JobStep(TRUE)
    \/ \E task_id \in TaskIds : StopTask(task_id)
    \/ StopTaskCache(FALSE)
    \/ StopTaskReturn(FALSE)
    \/ cleanup_completed_tasks

SpecSerial == Init /\ [][NextSerial]_vars

--------------------------------------------------------------------------
(* Properties *)

Terminal == {COMPLETED, FAILED, CANCELLED}

\* the edges of the task state machine
Edges ==
    {<<PENDING, RUNNING>>, <<RUNNING, COMPLETED>>, <<RUNNING, FAILED>>,
     <<PENDING, CANCELLED>>, <<RUNNING, CANCELLED>>}

\* C1: every change of a stored record's status follows one of the edges
\* PENDING->RUNNING, RUNNING->COMPLETED, RUNNING->FAILED, PENDING->CANCELLED,
\* RUNNING->CANCELLED.
C1_StatusFollowsEdges ==
    [][\A x \in DOMAIN store \cap DOMAIN store' :
          store[x].status # store'[x].status
              => <<store[x].status, store'[x].status>> \in Edges]_vars

\* C2: a record in a terminal status is not written again while it exists:
\* it keeps every field (status, error, result) until a sweep deletes it.
C2_TerminalIsFinal ==
    [][\A x \in DOMAIN store \cap DOMAIN store' :
          store[x].status \in Terminal => store'[x] = store[x]]_vars

\* C3: the task_ids returned by run_etl_task calls are pairwise distinct,
\* purged records included.
C3_ReturnedIdsDistinct ==
    \A i, j \in Returned : i # j => job[i].task_id # job[j].task_id

\* C4: when run_etl_task counts MAX_CONCURRENT_TASKS or more RUNNING records,
\* the call fails: store and cache stay as they were, no worker thread is
\* started, and the failed call does nothing afterwards.
C4_CapacityRejects ==
    [][\A j \in Jobs :
          /\ (job[j].pc = "idle" /\ job'[j].pc # "idle"
                  /\ get_running_tasks_count >= MAX_CONCURRENT_TASKS)
               => /\ job'[j].pc = "rejected"
                  /\ store' = store
                  /\ cache' = cache
                  /\ \A i \in Jobs : job'[i].pc = "dispatch" => job[i].pc = "dispatch"
          /\ job[j].pc = "rejected" => job'[j] = job[j]]_vars

\* C4 witness: a call was rejected while the store holds the ceiling's number
\* of RUNNING records and nothing else
C4_Witness ==
    /\ \E j \in Jobs : job[j].pc = "rejected"
    /\ get_running_tasks_count = MAX_CONCURRENT_TASKS
    /\ Cardinality(DOMAIN store) = MAX_CONCURRENT_TASKS

\* C5: for every task_id that run_etl_task has returned and whose record is
\* PENDING or RUNNING, get_task_output returns the "still running" sentinel.
C5_OutputStillRunning ==
    \A j \in Returned :
        (job[j].task_id \in DOMAIN store
            /\ store[job[j].task_id].status \in {PENDING, RUNNING})
        => get_task_output(job[j].task_id) = [output |-> "Task still running"]

\* a stop_task call on task_id takes the lock and loads the record
StopCallOn(task_id) ==
    stop.pc = "idle" /\ stop'.pc # "idle" /\ stop'.task_id = task_id

\* C6: stop_task on a record that is PENDING or RUNNING writes CANCELLED with
\* completed_at and the cancellation reason, and returns the cancelled status.
C6_StopCancelsLive ==
    [][\A x \in TaskIds :
          (StopCallOn(x) /\ x \in DOMAIN store
              /\ store[x].status \in {PENDING, RUNNING})
          => /\ store'[x].status = CANCELLED
             /\ store'[x].completed_at # NoTime
             /\ store'[x].error = "Task cancelled by user"
             /\ stop'.ret = CANCELLED]_vars

\* a second stop_task call is about to return: the call before it was on the
\* same task and no other operation has written the task's file since
SecondStop == stop.pc # "idle" /\ last_stop.task_id = stop.task_id

C8_StopLeavesTerminal ==
    [][\A x \in TaskIds :
          /\ (StopCallOn(x) /\ x \in DOMAIN store /\ store[x].status \in Terminal)
               => store' = store /\ cache' = cache /\ stop'.pc = "stop_return"
          /\ stop.pc = "stop_return" => store' = store /\ cache' = cache]_vars

\* C8 witness: stop_task is returning from a call on a COMPLETED record that
\* carries its result and no error
C8_Witness ==
    /\ stop.pc = "stop_return"
    /\ stop.ret = "not_running"
    /\ store[stop.task_id].status = COMPLETED
    /\ store[stop.task_id].result = "result"
    /\ store[stop.task_id].error = None

\* created_at lies before the retention window
IsOld(task_data) == fromisoformat(task_data.created_at) < now - TASK_TTL_HOURS

\* the jobs whose record no longer exists although their worker wrote it
PurgedJobs == {j \in Jobs : job[j].pc = "finished" /\ job[j].task_id \notin DOMAIN store}

\* C9: no step removes a record whose status is PENDING or RUNNING, whatever
\* its age.
C9_SweepKeepsLive ==
    [][\A x \in DOMAIN store :
          store[x].status \in {PENDING, RUNNING}
              => x \in DOMAIN store' /\ store'[x].task_id = store[x].task_id]_vars

\* C9 witness: a sweep has purged a record while a RUNNING record older than
\* the retention window is still stored
C9_Witness ==
    /\ PurgedJobs # {}
    /\ \E x \in DOMAIN store : store[x].status = RUNNING /\ IsOld(store[x])

\* C10: a sweep removes exactly the records that are terminal and older than
\* the retention window, from store and cache, and changes no other record.
C10_SweepRemovesExactly ==
    [][cleanup_completed_tasks =>
          LET expected == {x \in DOMAIN store :
                              store[x].status \in Terminal /\ IsOld(store[x])}
          IN /\ DOMAIN store' = DOMAIN store \ expected
             /\ \A x \in DOMAIN store' : store'[x] = store[x]
             /\ DOMAIN cache' \cap expected = {}]_vars

\* C10 witness: a sweep has purged a record while a terminal record created
\* exactly one retention window ago is still stored
C10_Witness ==
    /\ PurgedJobs # {}
    /\ \E x \in DOMAIN store :
          /\ store[x].status \in Terminal
          /\ fromisoformat(store[x].created_at) = now - TASK_TTL_HOURS

\* C11: run_etl_task with a step name that is not a key of etl_map fails in
\* the call: no call gets past its checks with such a name, no record of such
\* a step is in store or cache, and no worker runs one.
C11_UnknownStepRejected ==
    /\ \A j \in InFlight : job[j].step_name \in etl_map
    /\ \A x \in DOMAIN store : store[x].step_name \in etl_map
    /\ \A x \in DOMAIN cache : cache[x].data.step_name \in etl_map

\* C12: for a task_id with no stored record, never issued or purged by the
\* sweep, get_task_status and get_task_output report not found (the cache
\* gives no record back either), and a stop_task call returns not_found
\* exactly when the task has no record.
C12_AbsentIsNotFound ==
    /\ \A x \in TaskIds \ DOMAIN store :
          /\ get_task_status(x) = [status |-> "not_found", output |-> None]
          /\ get_task_output(x) = [output |-> "Task not found"]
    /\ stop.pc # "idle"
          => (stop.ret = "not_found" <=> stop.task_id \notin DOMAIN store)

\* C12 witness: stop_task returns not_found for the id of a purged record
\* while another id has never been issued
C12_Witness ==
    /\ stop.pc = "stop_return"
    /\ stop.ret = "not_found"
    /\ \E j \in PurgedJobs : job[j].task_id = stop.task_id
    /\ TaskIds \ Drawn # {}

\* job j's record is stored with status st
JobRecordIs(j, st) ==
    /\ job[j].task_id \in DOMAIN store
    /\ store[job[j].task_id].status = st

\* the stored record of job j is COMPLETED with the step function's result
\* and no error, and the status view shows it
CompletedJob(j) ==
    /\ JobRecordIs(j, COMPLETED)
    /\ store[job[j].task_id].result = "result"
    /\ store[job[j].task_id].error = None
    /\ get_task_status(job[j].task_id).status = COMPLETED

\* every run_etl_task call has returned or failed and every worker has ended
AllEnded == \A j \in Jobs : job[j].pc \in {"idle", "rejected", "finished"}

\* job j's worker thread ends in this step
WorkerEnds(j) == job[j].pc # "finished" /\ job'[j].pc = "finished"

\* C13: under fair scheduling every worker of a submitted task ends, and
\* when the step function returned it ends with the record COMPLETED, the
\* function's result stored and no error (there is no record left only when
\* the task was cancelled and purged meanwhile); once the status view shows
\* COMPLETED, get_task_output returns the result and get_task_status no
\* error, and the view stays so for as long as the record is stored.
C13_SuccessPath ==
    /\ <>[]AllEnded
    /\ [][\A j \in Jobs :
            WorkerEnds(j) => CompletedJob(j)' \/ job[j].task_id \notin DOMAIN store']_vars
    /\ [](\A x \in TaskIds :
            get_task_status(x).status = COMPLETED
                => /\ get_task_output(x) = [output |-> "result"]
                   /\ get_task_status(x).error = None)
    /\ [][\A x \in TaskIds :
            get_task_status(x).status = COMPLETED
                => \/ get_task_status(x)' = get_task_status(x)
                   \/ x \notin DOMAIN store']_vars

\* C13 witness: a worker has ended, its record is COMPLETED and read from
\* the file (the cache entry has expired), and get_task_output returns the
\* result
C13_Witness ==
    \E j \in Jobs :
        /\ job[j].pc = "finished"
        /\ CompletedJob(j)
        /\ cache_get(job[j].task_id) = NoData
        /\ get_task_output(job[j].task_id) = [output |-> "result"]

\* the stored record of job j is FAILED with the failure's description and
\* no result, and the status view shows it
FailedJob(j) ==
    /\ JobRecordIs(j, FAILED)
    /\ store[job[j].task_id].error = "step error"
    /\ store[job[j].task_id].result = None
    /\ get_task_status(job[j].task_id).status = FAILED

\* C14: under fair scheduling every worker of a submitted task ends, and
\* when the step function raised it ends with the record FAILED and the
\* failure's description as error (there is no record left only when the
\* task was cancelled and purged meanwhile); once the status view shows
\* FAILED, get_task_output returns the failure reason; no record of such a
\* task, in store or cache, ever has result set.
C14_FailurePath ==
    /\ <>[]AllEnded
    /\ [][\A j \in Jobs :
            WorkerEnds(j) => FailedJob(j)' \/ job[j].task_id \notin DOMAIN store']_vars
    /\ [](\A x \in TaskIds :
            get_task_status(x).status = FAILED
                => get_task_output(x) = [output |-> "Task failed: ", error |-> "step error"])
    /\ [](/\ \A x \in DOMAIN store : store[x].result = None
          /\ \A x \in DOMAIN cache : cache[x].data.result = None)

\* C14 witness: a worker has ended, its record is FAILED and read from the
\* file (the cache entry has expired), and get_task_output returns the reason
C14_Witness ==
    \E j \in Jobs :
        /\ job[j].pc = "finished"
        /\ FailedJob(j)
        /\ cache_get(job[j].task_id) = NoData
        /\ get_task_output(job[j].task_id).error = "step error"

\* C15: in every stored record result and error are never both set; both
\* are absent while the status is PENDING or RUNNING; result is set only when
\* the status is COMPLETED and error only when it is FAILED or CANCELLED.
C15_ResultErrorExclusive ==
    \A x \in DOMAIN store :
        /\ store[x].result = None \/ store[x].error = None
        /\ store[x].status \in {PENDING, RUNNING}
              => store[x].result = None /\ store[x].error = None
        /\ store[x].result # None => store[x].status = COMPLETED
        /\ store[x].error # None => store[x].status \in {FAILED, CANCELLED}

\* C15 witness: one record is CANCELLED with the cancellation reason and no
\* result while another is COMPLETED with its result and no error
C15_Witness ==
    \E x, y \in DOMAIN store :
        /\ store[x].status = CANCELLED
        /\ store[x].error = "Task cancelled by user"
        /\ store[x].result = None
        /\ store[y].status = COMPLETED
        /\ store[y].result = "result"
        /\ store[y].error = None

\* C16: in every stored record started_at is set if and only if the status
\* has left PENDING, and completed_at is set if and only if the status is
\* COMPLETED, FAILED or CANCELLED.
C16_TimestampsFollowStatus ==
    \A x \in DOMAIN store :
        /\ store[x].started_at # NoTime <=> store[x].status # PENDING
        /\ store[x].completed_at # NoTime <=> store[x].status \in Terminal

\* C16 witness: one record is still PENDING with neither timestamp while
\* another, cancelled while RUNNING, carries both
C16_Witness ==
    \E x, y \in DOMAIN store :
        /\ store[x].status = PENDING
        /\ store[x].started_at = NoTime
        /\ store[x].completed_at = NoTime
        /\ store[y].status = CANCELLED
        /\ store[y].started_at # NoTime
        /\ store[y].completed_at # NoTime

\* the fields of a record that are set at creation
Identity(task_data) ==
    <<task_data.task_id, task_data.step_name, task_data.params, task_data.created_at>>

\* C17: no step changes task_id, step_name, params or created_at of a record
\* that stays stored, in the file or in the cache: dispatch, completion,
\* failure and cancel change only the other fields.
C17_IdentityUnchanged ==
    [][/\ \A x \in DOMAIN store \cap DOMAIN store' :
             Identity(store'[x]) = Identity(store[x])
       /\ \A x \in DOMAIN cache \cap DOMAIN cache' :
             Identity(cache'[x].data) = Identity(cache[x].data)]_vars

\* C17 witness: a record created at hour 0 was dispatched a tick later and
\* has FAILED, and another was cancelled; both carry what they were created
\* with
C17_Witness ==
    \E x, y \in DOMAIN store :
        /\ store[x].status = FAILED
        /\ Identity(store[x]) = <<x, "extract", "p1", isoformat(0)>>
        /\ store[x].started_at # isoformat(0)
        /\ store[y].status = CANCELLED
        /\ Identity(store[y])[1] = y
        /\ Identity(store[y])[3] = "p1"

\* the ids whose query finds a record
Found == {x \in TaskIds : read_task(x) # NoData}

\* C18 as stated: the view returned by get_task_status never carries the
\* task's result, whatever the status, and carries the error only when the
\* status is FAILED.
C18_StatusWithoutResult ==
    \A x \in Found :
        /\ get_task_status(x).output = None
        /\ get_task_status(x).error # None => get_task_status(x).status = FAILED

\* C18 amended: the view returned by get_task_status carries the task's
\* result, as output, exactly when the status is COMPLETED, and the record's
\* error exactly when the status is FAILED (not when CANCELLED).
C18_StatusOutputWhenCompleted ==
    \A x \in Found :
        /\ get_task_status(x).output =
              IF read_task(x).status = COMPLETED THEN read_task(x).result ELSE None
        /\ get_task_status(x).error =
              IF read_task(x).status = FAILED THEN read_task(x).error ELSE None
        /\ read_task(x).status = COMPLETED => get_task_status(x).output # None
        /\ read_task(x).status = FAILED => get_task_status(x).error # None

\* C18 witness: the view of a CANCELLED record, whose error is set, carries
\* neither error nor output, and the view of a COMPLETED record its result
C18_Witness ==
    \E x, y \in Found :
        /\ read_task(x).status = CANCELLED
        /\ read_task(x).error = "Task cancelled by user"
        /\ get_task_status(x).error = None
        /\ get_task_status(x).output = None
        /\ get_task_status(y).status = COMPLETED
        /\ get_task_status(y).output = "result"

\* the values of limit a caller passes
Limits == 0..NumIds

\* C19: get_all_tasks(limit) returns at most limit summaries, the most
\* recently created record first whatever was written since, and no summary
\* has params or result.
C19_ListByCreation ==
    \A limit \in Limits : \A tasks \in get_all_tasks(limit) :
        /\ Len(tasks) <= limit
        /\ \A i, k \in DOMAIN tasks :
              i < k => fromisoformat(tasks[i].created_at) >= fromisoformat(tasks[k].created_at)
        /\ \A i \in DOMAIN tasks : DOMAIN tasks[i] \cap {"params", "result"} = {}

\* the number of stored records with status st
StatusCount(st) == Cardinality({x \in DOMAIN store : store[x].status = st})

\* the number get_system_stats reports for status st (0 when it has no
\* field for the status)
Reported(stats, st) ==
    CASE st = RUNNING -> stats.running_tasks
      [] st = COMPLETED -> stats.completed_tasks
      [] st = FAILED -> stats.failed_tasks
      [] OTHER -> 0

\* C20: get_system_stats reports for each of the five statuses the number of
\* stored records with that status, so that the counts add up to the total,
\* together with the ceiling and the retention window.
C20_StatsCountEveryStatus ==
    LET stats == get_system_stats IN
    /\ \A st \in {PENDING, RUNNING, COMPLETED, FAILED, CANCELLED} :
          Reported(stats, st) = StatusCount(st)
    /\ stats.running_tasks + stats.completed_tasks + stats.failed_tasks
          = stats.total_tasks
    /\ stats.max_concurrent_tasks = MAX_CONCURRENT_TASKS
    /\ stats.task_ttl_hours = TASK_TTL_HOURS

\* the status a get_task_status call returns for task_id in this state
Polled(task_id) == get_task_status(task_id).status

\* the ids whose run_etl_task call has returned and whose record is gone
Purged == {job[j].task_id : j \in Returned} \ DOMAIN store

\* C21: once a get_task_status call has returned COMPLETED for a task, every
\* later call returns COMPLETED until the record is purged, and not_found
\* from then on: none returns PENDING or RUNNING, whatever the interleaving
\* with the worker's file-then-cache writes and the expiry of cache entries.
C21_PollsMonotone ==
    [][\A x \in TaskIds :
          /\ Polled(x) = COMPLETED => Polled(x)' \in {COMPLETED, "not_found"}
          /\ x \in Purged => Polled(x)' = "not_found"]_vars

\* C21 witness: a worker holds the lock between its write of COMPLETED to
\* the file and its cache.set, the cache entry written at dispatch has
\* expired, and a poll returns COMPLETED from the file
C21_Witness ==
    \E j \in Jobs :
        /\ job[j].pc = "finish_cache"
        /\ task_lock = j
        /\ job[j].task_id \in DOMAIN cache
        /\ cache[job[j].task_id].data.status = RUNNING
        /\ cache_get(job[j].task_id) = NoData
        /\ Polled(job[j].task_id) = COMPLETED

\* job j's run_etl_task call returns its task_id in this step
SubmitReturns(j) == job[j].pc = "save_cache" /\ job'[j].pc = "dispatch"

\* C22: when run_etl_task returns a task_id, the record of that id is in the
\* file and in the cache as created: PENDING, created_at the time of the
\* call, started_at, completed_at, result and error absent, params as
\* submitted; the call returns before the worker has dispatched.
C22_ReturnsAfterPersist ==
    [][\A j \in Jobs :
          SubmitReturns(j) =>
              LET task_data == store'[job[j].task_id] IN
              /\ job[j].task_id \in DOMAIN store'
              /\ task_data.task_id = job[j].task_id
              /\ task_data.status = PENDING
              /\ task_data.created_at = isoformat(now)
              /\ task_data.started_at = NoTime
              /\ task_data.completed_at = NoTime
              /\ task_data.result = None
              /\ task_data.error = None
              /\ task_data.params = job[j].params
              /\ task_data.step_name = job[j].step_name
              /\ read_task(job[j].task_id)' = task_data]_vars

\* C22 witness: a call made a tick after start has returned, its worker has
\* not dispatched, and the record is PENDING with the params submitted
C22_Witness ==
    \E j \in Jobs :
        /\ job[j].pc = "dispatch"
        /\ JobRecordIs(j, PENDING)
        /\ store[job[j].task_id].params = "p1"
        /\ store[job[j].task_id].created_at = isoformat(TickHours)
        /\ \E i \in Jobs : job[i].pc = "exec"

\* job j's worker writes RUNNING to its task's file in this step
WritesRunning(j) == job[j].pc = "dispatch" /\ job'[j].pc = "dispatch_cache"

\* C23: the worker never writes RUNNING over a record that is CANCELLED,
\* COMPLETED or FAILED: on loading such a record it leaves it and does not
\* invoke the step function.
C23_DispatchOnlyPending ==
    [][\A j \in Jobs :
          WritesRunning(j) => store[job[j].task_id].status \notin Terminal]_vars

\* C24: when no two run_etl_task calls overlap in time, the number of
\* RUNNING records never exceeds MAX_CONCURRENT_TASKS.
C24_CeilingWithoutOverlap ==
    get_running_tasks_count <= MAX_CONCURRENT_TASKS

\* job j's run_etl_task call writes its new record to the file in this step
WritesNew(j) == job[j].pc = "save" /\ job'[j].pc = "save_cache"

\* C25: every step that changes a task file takes task_lock (the sweep takes
\* and releases it within its step), and what the step writes rests on the
\* file as it is under that lock: the initial write finds the id's file
\* absent, as its check did.
C25_MutationsUnderLock ==
    [][/\ store' # store =>
             /\ task_lock = 0
             /\ task_lock' # 0 \/ cleanup_completed_tasks
       /\ \A j \in Jobs :
             WritesNew(j) => job[j].task_id \notin DOMAIN store]_vars

\* the positions at which a job holds task_lock
LockSections == {"save_cache", "dispatch_cache", "finish_cache"}

\* C26: task_lock is held by a job only inside its lock sections, never
\* while its step function executes; and though step functions may run for
\* ever, every call and every worker gets through its lock sections: in the
\* end each thread is at rest or inside its step function.
C26_LockFreeWhileStepRuns ==
    /\ [](\A j \in Jobs :
            /\ task_lock = j <=> job[j].pc \in LockSections
            /\ job[j].pc = "exec" => task_lock # j)
    /\ <>[](\A j \in Jobs :
              job[j].pc \in {"idle", "rejected", "finished", "exec"})

\* C26 witness: a step function has been running for a tick or more, the
\* sweep has meanwhile purged another task, and stop_task holds the lock in
\* a call on another id
C26_Witness ==
    \E j \in Jobs :
        /\ job[j].pc = "exec"
        /\ JobRecordIs(j, RUNNING)
        /\ store[job[j].task_id].started_at # isoformat(now)
        /\ PurgedJobs # {}
        /\ task_lock = StopThread
        /\ stop.task_id # job[j].task_id

Invokes(j) == job[j].pc = "dispatch_cache" /\ job'[j].pc = "exec"

\* the worker of job j has called the step function
Invoked(j) == job[j].pc \in {"exec", "finish_cache", "finished"}

\* C28: each submitted task has one worker thread, which runs from dispatch
\* to its end once: after it has called the step function it never goes back
\* to the dispatch or to the call, whether the step returns, raises or the
\* task is cancelled meanwhile; and no step turns a FAILED record back into
\* PENDING or RUNNING.
C28_NoRetry ==
    [][ /\ \A j \in Jobs :
             /\ Invoked(j) =>
                   /\ ~Invokes(j)
                   /\ Invoked(j)'
                   /\ job'[j].task_id = job[j].task_id
             /\ job[j].pc # "exec" /\ job'[j].pc = "exec" => Invokes(j)
             /\ WritesRunning(j) => store[job[j].task_id].status # FAILED
        /\ \A j, k \in Returned' :
             job'[j].task_id = job'[k].task_id => j = k
        /\ \A x \in DOMAIN store \cap DOMAIN store' :
             store[x].status = FAILED => store'[x].status = FAILED ]_vars

\* C28 witness: one worker has ended on a step that raised and left its task
\* FAILED; the other task was cancelled while its step function runs
C28_Witness ==
    \E j, k \in Jobs :
        /\ job[j].pc = "finished"
        /\ JobRecordIs(j, FAILED)
        /\ job[k].pc = "exec"
        /\ JobRecordIs(k, CANCELLED)

\* the execution of job j fails: its worker leaves the call of line 158 (or
\* the lookup of line 152) by the except branch of line 175
ExecutionFails(j) == job[j].pc = "exec" /\ job'[j].pc # "exec"

\* the values stop_task returns
StopReturns == {"not_found", "cancelled", "not_running"}

\* C29: when the execution of a task fails, by the step function or by an
\* unknown step, the worker alone moves: it records FAILED with the failure's
\* description on the task's record (when there is one), no run_etl_task call
\* is turned into a rejection, no stop_task call is disturbed; and the
\* failure is read as data: get_task_status and get_task_output of a FAILED
\* task return its description, stop_task returns one of its three values.
C29_FailuresRecordedNotRaised ==
    /\ [][\A j \in Jobs :
            /\ ExecutionFails(j) =>
                  /\ job'[j].pc \in {"finish_cache", "finished"}
                  /\ job[j].task_id \in DOMAIN store =>
                        /\ store'[job[j].task_id].status = FAILED
                        /\ store'[job[j].task_id].error =
                              IF job[j].step_name \in etl_map
                              THEN "step error" ELSE "Unknown ETL step"
                  /\ stop' = stop
                  /\ \A k \in Jobs \ {j} : job'[k] = job[k]
            /\ job'[j].pc = "rejected" => job[j].pc \in {"idle", "rejected"}]_vars
    /\ [](\A x \in TaskIds :
            Polled(x) = FAILED =>
               /\ get_task_status(x).error \in {"step error", "Unknown ETL step"}
               /\ get_task_output(x) =
                     [output |-> "Task failed: ", error |-> get_task_status(x).error])
    /\ [](stop.ret \in StopReturns \cup {None})

\* C29 witness: one task failed on an unknown step and another on a step
\* function that raised; both workers have ended, both records are FAILED,
\* and a stop_task call on one of them is about to return not_running
C29_Witness ==
    \E j, k \in Jobs :
        /\ job[j].pc = "finished"
        /\ job[k].pc = "finished"
        /\ JobRecordIs(j, FAILED)
        /\ JobRecordIs(k, FAILED)
        /\ get_task_status(job[j].task_id).error = "Unknown ETL step"
        /\ get_task_status(job[k].task_id).error = "step error"
        /\ stop.pc = "stop_return"
        /\ stop.task_id = job[j].task_id
        /\ stop.ret = "not_running"

\* C30: a status transition whose write fails is abandoned as a whole, the
\* cache is not advanced: outside the lock sections, whatever record
\* get_task_status and get_task_output read for a task is the record its
\* file holds.
C30_ViewsShowStoredState ==
    task_lock = 0 =>
        \A x \in TaskIds :
            read_task(x) # NoData => load_task_from_disk(x) = read_task(x)

\* the initial write of job j's run_etl_task call has failed: the call
\* stands after save_task_to_disk (line 217) and its task has no file
InitialWriteFailed(j) ==
    /\ job[j].pc = "save_cache"
    /\ job[j].task_id \notin DOMAIN store

\* C31: when the write of the initial PENDING record fails, run_etl_task
\* reports the failure to its caller: it returns no task_id, starts no
\* worker, and leaves no record of the task in the store or the cache.
C31_FailedSubmitLeavesNothing ==
    [][\A j \in Jobs :
          InitialWriteFailed(j) =>
              /\ j \notin Returned'
              /\ job[j].task_id \notin DOMAIN store'
              /\ job[j].task_id \notin DOMAIN cache']_vars

\* a read of task_id misses the cache and finds the record in the store
FallsBack(task_id) ==
    /\ cache_get(task_id) = NoData
    /\ load_task_from_disk(task_id) # NoData

\* C32: a read takes the record from the cache when it is there and from the
\* store otherwise; when it took it from the store, the cache after the read
\* holds that record, unexpired, so that the next read is served from it.
C32_ReadRepopulatesCache ==
    \A x \in TaskIds :
        /\ cache_get(x) # NoData => read_task(x) = cache_get(x)
        /\ FallsBack(x) =>
              /\ read_task(x) = load_task_from_disk(x)
              /\ x \in DOMAIN cache_after_read(x)
              /\ cache_after_read(x)[x].data = load_task_from_disk(x)
              /\ cache_after_read(x)[x].expire_time > now

\* this step is a stop_task call that cancels task_id
Cancels(task_id) ==
    /\ stop.pc = "idle"
    /\ stop'.pc = "stop_cache"
    /\ stop'.task_id = task_id

\* C33: while the step function of a task has not returned and no stop_task
\* call cancels the task, every step of the system, a sweep at any age of
\* the record included, leaves the RUNNING record as it is, and the record
\* keeps counting in get_running_tasks_count.
C33_NoTimeout ==
    [][\A j \in Jobs :
          (/\ job[j].pc = "exec"
           /\ job'[j].pc = "exec"
           /\ JobRecordIs(j, RUNNING)
           /\ ~Cancels(job[j].task_id))
              => /\ job[j].task_id \in DOMAIN store'
                 /\ store'[job[j].task_id] = store[job[j].task_id]
                 /\ get_running_tasks_count' >= 1]_vars

\* C33 witness: at the last tick a step function is still running on a
\* record older than the retention window, still RUNNING, and a later
\* run_etl_task call was rejected at the ceiling because of it
C33_Witness ==
    \E j, k \in Jobs :
        /\ job[j].pc = "exec"
        /\ JobRecordIs(j, RUNNING)
        /\ IsOld(store[job[j].task_id])
        /\ now = MaxTicks * TickHours
        /\ job[k].pc = "rejected"
        /\ get_running_tasks_count = MAX_CONCURRENT_TASKS

\* this step is a sweep: it runs with the lock free, as one lock section,
\* and moves no call of run_etl_task, no worker and no stop_task call
SweepStep ==
    /\ task_lock = 0
    /\ task_lock' = 0
    /\ job' = job
    /\ stop' = stop

\* C34: a step that removes a record from the store is a sweep, and the
\* records it removes are the purgeable ones: no step of run_etl_task, of a
\* worker or of stop_task removes one; and a read of a task by
\* get_task_status or get_task_output leaves the cache as it is (the four
\* queries write no file).
C34_OnlySweepDeletes ==
    /\ [][\A x \in DOMAIN store \ DOMAIN store' :
             SweepStep /\ IsPurgeable(store[x])]_vars
    /\ [](\A x \in TaskIds : cache_after_read(x) = cache)

\* C34 witness: a sweep has purged the record of an ended task; the record
\* of another task, whose step function runs, is still stored, and a read
\* of it falls back to the file because its cache entry has expired
C34_Witness ==
    /\ PurgedJobs # {}
    /\ \E k \in Jobs :
          /\ job[k].pc = "exec"
          /\ JobRecordIs(k, RUNNING)
          /\ FallsBack(job[k].task_id)

\* C35: when store writes succeed, in every state with task_lock free each
\* cache entry, expired or not, is for a task that has a file and holds the
\* record of that file; so the status get_task_status and get_task_output
\* read is the stored one, never an older one.
C35_CacheCoherent ==
    task_lock = 0 =>
        /\ \A x \in DOMAIN cache :
              /\ x \in DOMAIN store
              /\ cache[x].data = store[x]
        /\ \A x \in DOMAIN store : Polled(x) = store[x].status

\* C35 witness: with the lock free, after a sweep has removed a record and
\* its cache entry, the cache holds the CANCELLED record stop_task wrote for
\* a task whose worker has not yet ended
C35_Witness ==
    /\ task_lock = 0
    /\ PurgedJobs # {}
    /\ \E k \in Jobs :
          /\ job[k].pc = "exec"
          /\ JobRecordIs(k, CANCELLED)
          /\ cache_get(job[k].task_id) = store[job[k].task_id]

\* C36: whatever the interleaving of run_etl_task calls, the initial write
\* of a call adds a record and replaces none: every record that is in the
\* store when the call writes is still there, unchanged, after the write.
C36_SubmitNeverOverwrites ==
    [][\A j \in Jobs :
          WritesNew(j) =>
              \A x \in DOMAIN store :
                  x \in DOMAIN store' /\ store'[x] = store[x]]_vars

\* the worker of job j leaves its step function and finds no file
EndsWithoutRecord(j) ==
    /\ job[j].pc = "exec"
    /\ job'[j].pc # "exec"
    /\ job[j].task_id \notin DOMAIN store

\* C37: when the sweep has deleted a task's record while its step function
\* was executing, the worker's completion or failure writes nothing: the
\* worker ends, store and cache stay as they are, without a record or an
\* entry for the task, and no later step brings the record back.
C37_PurgedStaysPurged ==
    [][\A j \in Jobs :
          /\ EndsWithoutRecord(j) =>
                /\ job'[j] = Finished(job[j].task_id)
                /\ store' = store
                /\ cache' = cache
                /\ job[j].task_id \notin DOMAIN cache'
                /\ task_lock' = task_lock
          /\ (job[j].pc \in {"exec", "finished"}
                 /\ job[j].task_id \notin DOMAIN store)
                => job[j].task_id \notin DOMAIN store' \cup DOMAIN cache']_vars

\* C37 witness: a task was cancelled while its step function executed, aged
\* past the retention window and was purged by the sweep; its step function
\* is still executing and neither store nor cache knows the task
C37_Witness ==
    \E j \in Jobs :
        /\ job[j].pc = "exec"
        /\ job[j].task_id \notin DOMAIN store
        /\ job[j].task_id \notin DOMAIN cache
        /\ Polled(job[j].task_id) = "not_found"
        /\ task_lock = 0

\* the thread that holds task_lock stands inside one of its lock sections
HolderInSection ==
    /\ task_lock \in Jobs => job[task_lock].pc \in LockSections
    /\ task_lock = StopThread => stop.pc \in {"stop_cache", "stop_return"}

\* the thread that holds task_lock does not move in this step
HolderWaits ==
    /\ task_lock \in Jobs => job'[task_lock] = job[task_lock]
    /\ task_lock = StopThread => stop' = stop

\* C38: task_lock is taken only when it is free, never by a thread that
\* holds it; the holder stands inside a lock section and its next step
\* releases the lock, on the early returns too (no record at dispatch,
\* not_found and not_running of stop_task); so under fair scheduling the
\* lock is free again and again, whatever the step functions do.
C38_LockAlwaysReleased ==
    /\ [][task_lock # 0 =>
             /\ task_lock' \in {0, task_lock}
             /\ task_lock' = task_lock => HolderWaits]_vars
    /\ []HolderInSection
    /\ []<>(task_lock = 0)

\* C38 witness: stop_task holds the lock on its not_found path while a
\* worker waits for the lock at its dispatch and another step function runs
C38_Witness ==
    /\ task_lock = StopThread
    /\ stop.pc = "stop_return"
    /\ stop.ret = "not_found"
    /\ \E j, k \in Jobs :
          /\ job[j].pc = "dispatch"
          /\ job[k].pc = "exec"

\* the timestamps of a record follow the lifecycle
Ordered(task_data) ==
    /\ task_data.started_at # NoTime =>
          fromisoformat(task_data.created_at) <= fromisoformat(task_data.started_at)
    /\ task_data.completed_at # NoTime =>
          /\ task_data.started_at # NoTime
          /\ fromisoformat(task_data.started_at) <= fromisoformat(task_data.completed_at)

\* C39: the clock never going back, every record, in the store and in the
\* cache, has created_at <= started_at when started_at is set, and
\* started_at set and <= completed_at when completed_at is set.
C39_TimestampsOrdered ==
    /\ \A x \in DOMAIN store : Ordered(store[x])
    /\ \A x \in DOMAIN cache : Ordered(cache[x].data)

\* C39 witness: a record created, started a tick later and failed another
\* tick later, next to a record cancelled in the hour it started
C39_Witness ==
    \E x, y \in DOMAIN store :
        /\ store[x].status = FAILED
        /\ fromisoformat(store[x].created_at) < fromisoformat(store[x].started_at)
        /\ fromisoformat(store[x].started_at) < fromisoformat(store[x].completed_at)
        /\ store[y].status = CANCELLED
        /\ store[y].started_at = store[y].completed_at

\* the worker of job j takes a step
WorkerSteps(j) ==
    /\ job[j].pc \in {"dispatch", "dispatch_cache", "exec", "finish_cache"}
    /\ job'[j] # job[j]

\* the worker of job j leaves its dispatch and there is no file of its task
DispatchWithoutRecord(j) ==
    /\ job[j].pc = "dispatch"
    /\ job'[j].pc # "dispatch"
    /\ job[j].task_id \notin DOMAIN store

\* C40: a worker that finds no record of its task at dispatch ends there: it
\* does not call the step function, writes neither store nor cache and
\* leaves the lock free; and no step of a worker adds a record to the store.
C40_WorkerCreatesNoRecord ==
    [][\A j \in Jobs :
          /\ DispatchWithoutRecord(j) =>
                /\ job'[j] = Finished(job[j].task_id)
                /\ store' = store
                /\ cache' = cache
                /\ task_lock' = 0
          /\ WorkerSteps(j) => DOMAIN store' \subseteq DOMAIN store]_vars

\* C40 witness: the initial write of a task failed, its worker found no
\* file at dispatch and has ended; there is no file, and the cache still
\* holds the PENDING record run_etl_task put there
C40_Witness ==
    \E j \in Jobs :
        /\ job[j].pc = "finished"
        /\ job[j].task_id \notin DOMAIN store
        /\ job[j].task_id \in DOMAIN cache
        /\ cache[job[j].task_id].data.status = PENDING

==========================================================================
